---------------------------- MODULE Spec2Model ----------------------------
(***************************************************************************)
(* The three model-export scripts of the repository:                       *)
(*   create_tf_serving_model.py      ("serving",  mock length predictor)   *)
(*   create_toxicity_model.py        ("toxicity", random-weights network)  *)
(*   download_pretrained_model.py    ("download", hub-fetched model)       *)
(* Each run is a straight-line program over one shared resource, the       *)
(* destination directory.  The mock predictor `predict` is a pure function *)
(* and is modelled as an operator.                                         *)
(***************************************************************************)
EXTENDS Integers, Sequences, FiniteSets, TLC

VARIABLES
    fs,          \* the destination directory: [exists, files]
    fs0,         \* the destination directory as it was when the run started
    runs,        \* run id -> the state of that run of a script
    input_text,  \* the batch handed to predict
    output       \* what predict returned for input_text

vars == <<fs, fs0, runs, input_text, output>>

---------------------------------------------------------------------------
(* Bounds of the model. *)

\* the largest batch of strings handed to predict
MaxBatch == 2

\* the longest string, in bytes, the properties speak of
MaxBytes == 450

\* byte lengths of the sample strings ("hi" has 2; 100 is where the cap starts)
SampleLens == {0, 2, 99, 100, 101, 150}

\* character counts of the sample strings made of 3-byte characters
WideLens == {1, 40}

---------------------------------------------------------------------------
(* Strings and tensors.                                                    *)
(* A string is the sequence of the UTF-8 byte widths of its characters.    *)
(* A float is a fixed-point integer counting hundredths.                   *)

Ascii(n) == [i \in 1..n |-> 1]

Wide(n) == [i \in 1..n |-> 3]

SampleStrings == {Ascii(n) : n \in SampleLens} \cup {Wide(n) : n \in WideLens}

Batches == UNION {[1..n -> SampleStrings] : n \in 0..MaxBatch}

\* the bytes of characters lo..hi of s (halving keeps the evaluation shallow)
RECURSIVE ByteSum(_, _, _)
ByteSum(s, lo, hi) ==
    IF lo > hi THEN 0
    ELSE IF lo = hi THEN s[lo]
    ELSE LET mid == (lo + hi) \div 2
         IN  ByteSum(s, lo, mid) + ByteSum(s, mid + 1, hi)

\* tf.strings.length counting characters (unit="UTF8_CHAR") instead of bytes
StringsLengthChars(s) == Len(s)

\* tf.strings.length with its default unit: the number of bytes
StringsLength(s) == ByteSum(s, 1, Len(s))

\* tf.cast(x, tf.float32): an integer as a fixed-point float
Cast(n) == n * 100

\* the float literals of predict
Divisor == 100

Cap == 1

\* fixed-point division
Divide(a, b) == (a * 100) \div b

Minimum(a, b) == IF a <= b THEN a ELSE b

\* predict without tf.minimum
predictNoCap(batch) ==
    LET lengths == [i \in 1..Len(batch) |-> StringsLength(batch[i])]
        lengths_float == [i \in 1..Len(batch) |-> Cast(lengths[i])]
        normalized == [i \in 1..Len(batch) |-> Divide(lengths_float[i], Cast(Divisor))]
    IN  [toxicity_score |-> normalized,
         text_length |-> lengths,
         predictions |-> normalized]

\* def predict(input_text)
predict(batch) ==
    LET lengths == [i \in 1..Len(batch) |-> StringsLength(batch[i])]
        lengths_float == [i \in 1..Len(batch) |-> Cast(lengths[i])]
        normalized == [i \in 1..Len(batch) |-> Divide(lengths_float[i], Cast(Divisor))]
        scores == [i \in 1..Len(batch) |-> Minimum(normalized[i], Cast(Cap))]
    IN  [toxicity_score |-> scores,
         text_length |-> lengths,
         predictions |-> scores]

NotCalled == [toxicity_score |-> <<-1>>, text_length |-> <<-1>>, predictions |-> <<-1>>]

---------------------------------------------------------------------------
(* The specification of the pure predictor. *)

InitPredict ==
    /\ input_text \in Batches
    /\ output = NotCalled
    /\ fs = [exists |-> FALSE, files |-> {}]
    /\ fs0 = fs
    /\ runs = <<>>

CallPredict ==
    /\ output = NotCalled
    /\ output' = predict(input_text)
    /\ UNCHANGED <<fs, fs0, runs, input_text>>

NextPredict == CallPredict

SpecPredict == InitPredict /\ [][NextPredict]_vars

---------------------------------------------------------------------------
(* The destination directory.                                              *)
(* A file is [name, owner, sigs]: owner is the id of the run that wrote it *)
(* (0: it was there before), sigs the signatures serialized into it.       *)

Scripts == {"serving", "toxicity", "download"}

\* the layout tf.saved_model.save produces, in the order it is written
SaveOrder == <<"variables", "assets", "saved_model.pb">>

ArtifactNames == {SaveOrder[i] : i \in 1..Len(SaveOrder)}

PriorNames == ArtifactNames \cup {"stale.txt"}

PriorFiles == {[name |-> n, owner |-> 0, sigs |-> {}] : n \in PriorNames}

InitialDirs ==
    {[exists |-> FALSE, files |-> {}]}
        \cup {[exists |-> TRUE, files |-> F] : F \in SUBSET PriorFiles}

Names(f) == {x.name : x \in f.files}

\* os.path.exists(model_dir)
PathExists(f) == f.exists

\* shutil.rmtree(model_dir) on a directory that is there
Rmtree(f) == [exists |-> FALSE, files |-> {}]

\* os.makedirs(model_dir, exist_ok=True) that also empties the directory
MakedirsClean(f) == [exists |-> TRUE, files |-> {}]

\* os.makedirs(model_dir, exist_ok=True)
Makedirs(f) == [f EXCEPT !.exists = TRUE]

\* one file of the export: the directory is created when missing, a file of
\* the same name is replaced
WriteFile(f, n, p, sigs) ==
    [exists |-> TRUE,
     files |-> {x \in f.files : x.name # n}
                   \cup {[name |-> n, owner |-> p, sigs |-> sigs]}]

\* tf.saved_model.load can read the directory back
Loadable(f) == f.exists /\ {"saved_model.pb", "variables"} \subseteq Names(f)

\* the signatures tf.saved_model.load finds
LoadedSigs(f) == UNION {x.sigs : x \in {y \in f.files : y.name = "saved_model.pb"}}

---------------------------------------------------------------------------
(* Signatures. *)

\* a dimension of unknown size
None == -1

\* a signature for batches of exactly one string
text_spec_fixed == [shape |-> 1, dtype |-> "string", name |-> "text_input"]

\* tf.TensorSpec(shape=[None], dtype=tf.string, name='text_input')
text_spec == [shape |-> None, dtype |-> "string", name |-> "text_input"]

\* predict.get_concrete_function(text_spec)
GetConcreteFunction(spec) == [shape |-> spec.shape, body |-> "predict"]

\* ToxicityModel.serve traced under its input_signature
ServeFunction == [shape |-> None, body |-> "serve"]

NoFunction == [shape |-> 0, body |-> "none"]

\* the signatures= argument of tf.saved_model.save
Signatures(s, func) ==
    IF s = "download" THEN {}
    ELSE {[key |-> "serving_default", shape |-> func.shape, body |-> func.body]}

ShapeAccepts(shape, n) == shape = None \/ shape = n

InvalidArgument == [ok |-> FALSE, toxicity_score |-> <<>>]

\* a call of a reloaded signature of the mock predictor on a batch
CallSignature(sig, batch) ==
    IF sig.body = "predict" /\ ShapeAccepts(sig.shape, Len(batch))
    THEN [ok |-> TRUE, toxicity_score |-> predict(batch).toxicity_score]
    ELSE InvalidArgument

---------------------------------------------------------------------------
(* The scripts as programs: the statements of each, in order. *)

\* create_serving_model without the reload of the artifact
ProgramNoLoad(s) ==
    CASE s = "serving" ->
           <<"exists", "rmtree", "makedirs", "construct", "bind", "save", "walk">>
      [] s = "toxicity" -> <<"makedirs", "construct", "sample", "save", "walk">>
      [] s = "download" -> <<"makedirs", "construct", "save", "listdir">>

\* create_serving_model without the removal of the old directory
ProgramNoRmtree(s) ==
    CASE s = "serving" ->
           <<"makedirs", "construct", "bind", "save", "load", "walk">>
      [] s = "toxicity" -> <<"makedirs", "construct", "sample", "save", "walk">>
      [] s = "download" -> <<"makedirs", "construct", "save", "listdir">>

\* the clean-up of create_serving_model placed after the export
ProgramLateCleanup(s) ==
    CASE s = "serving" ->
           <<"construct", "bind", "save", "exists", "rmtree", "makedirs", "load", "walk">>
      [] s = "toxicity" -> <<"makedirs", "construct", "sample", "save", "walk">>
      [] s = "download" -> <<"makedirs", "construct", "save", "listdir">>

\* the directory created only once the predictor is built and bound
ProgramLateMakedirs(s) ==
    CASE s = "serving" ->
           <<"exists", "rmtree", "construct", "bind", "makedirs", "save", "load", "walk">>
      [] s = "toxicity" -> <<"construct", "sample", "makedirs", "save", "walk">>
      [] s = "download" -> <<"construct", "makedirs", "save", "listdir">>

\* create_toxicity_model saving before the sample call
ProgramNoSample(s) ==
    CASE s = "serving" ->
           <<"exists", "rmtree", "makedirs", "construct", "bind", "save", "load", "walk">>
      [] s = "toxicity" -> <<"makedirs", "construct", "save", "sample", "walk">>
      [] s = "download" -> <<"makedirs", "construct", "save", "listdir">>

\* the statements of each script, in the order of the source
Program(s) ==
    CASE s = "serving" ->
           <<"exists", "rmtree", "makedirs", "construct", "bind", "save", "load", "walk">>
      [] s = "toxicity" -> <<"makedirs", "construct", "sample", "save", "walk">>
      [] s = "download" -> <<"makedirs", "construct", "save", "listdir">>

IndexOf(seq, x) == CHOOSE i \in 1..Len(seq) : seq[i] = x

\* the statement after `step`
After(s, step) ==
    LET prog == Program(s)
        i == IndexOf(prog, step)
    IN  IF i = Len(prog) THEN "done" ELSE prog[i + 1]

\* the statement after the if of create_serving_model
AfterExists(s, found) == IF found THEN After(s, "exists") ELSE After(s, "rmtree")

\* every script dying of the exception
ExitOnErrorAlways1(s) == 1

\* the exit status of a run that raised: create_tf_serving_model catches the
\* exception at the top level and ends normally, the others die of it
ExitOnError(s) == IF s = "serving" THEN 0 ELSE 1

Caught(s) == s = "serving"

NewRun(s) ==
    [script |-> s, pc |-> Head(Program(s)), model |-> "none", func |-> NoFunction,
     sample |-> 0, written |-> 0, reported |-> FALSE, loaded |-> FALSE,
     sigs |-> {}, listing |-> "none", caught |-> FALSE, exited |-> FALSE,
     exitCode |-> 0, error |-> "none",
     failedAt |-> "none", touched |-> FALSE, trace |-> <<>>]

\* the run after `step` completed
Advance(r, step, next) ==
    [r EXCEPT !.pc = next,
              !.trace = Append(@, step),
              !.exited = (next = "done"),
              !.exitCode = 0]

\* the run after `step` raised `error`
Raised(r, step, error) ==
    [r EXCEPT !.pc = "failed",
              !.trace = Append(@, step),
              !.failedAt = step,
              !.error = error,
              !.caught = Caught(r.script),
              !.exited = TRUE,
              !.exitCode = ExitOnError(r.script)]

---------------------------------------------------------------------------
(* The statements. *)

\* tf.constant(["test text"])
test_input == <<Ascii(9)>>

\* if os.path.exists(model_dir):
CheckExists(p) ==
    /\ runs[p].pc = "exists"
    /\ runs' = [runs EXCEPT ![p] =
                   Advance(@, "exists", AfterExists(@.script, PathExists(fs)))]
    /\ UNCHANGED <<fs, fs0, input_text, output>>

\* shutil.rmtree(model_dir): FileNotFoundError when the directory is gone
RmtreeStep(p) ==
    /\ runs[p].pc = "rmtree"
    /\ IF PathExists(fs)
       THEN /\ fs' = Rmtree(fs)
            /\ runs' = [runs EXCEPT ![p] = [Advance(@, "rmtree", After(@.script, "rmtree"))
                                               EXCEPT !.touched = TRUE]]
       ELSE /\ fs' = fs
            /\ runs' = [runs EXCEPT ![p] = Raised(@, "rmtree", "FileNotFoundError")]
    /\ UNCHANGED <<fs0, input_text, output>>

\* os.makedirs(model_dir, exist_ok=True)
MakedirsStep(p) ==
    /\ runs[p].pc = "makedirs"
    /\ fs' = Makedirs(fs)
    /\ runs' = [runs EXCEPT ![p] = [Advance(@, "makedirs", After(@.script, "makedirs"))
                                       EXCEPT !.touched = TRUE]]
    /\ UNCHANGED <<fs0, input_text, output>>

\* @tf.function def predict(input_text)
DefinePredict(p) ==
    /\ runs[p].pc = "construct"
    /\ runs[p].script = "serving"
    /\ runs' = [runs EXCEPT ![p] = [Advance(@, "construct", After(@.script, "construct"))
                                       EXCEPT !.model = "predict"]]
    /\ UNCHANGED <<fs, fs0, input_text, output>>

\* model = ToxicityModel(): the layers have no weights yet
NewToxicityModel(p) ==
    /\ runs[p].pc = "construct"
    /\ runs[p].script = "toxicity"
    /\ runs' = [runs EXCEPT ![p] = [Advance(@, "construct", After(@.script, "construct"))
                                       EXCEPT !.model = "unbuilt"]]
    /\ UNCHANGED <<fs, fs0, input_text, output>>

\* model = hub.load(model_url)
HubLoad(p) ==
    /\ runs[p].pc = "construct"
    /\ runs[p].script = "download"
    /\ runs' = [runs EXCEPT ![p] = [Advance(@, "construct", After(@.script, "construct"))
                                       EXCEPT !.model = "hub"]]
    /\ UNCHANGED <<fs, fs0, input_text, output>>

\* concrete_func = predict.get_concrete_function(text_spec)
Bind(p) ==
    /\ runs[p].pc = "bind"
    /\ runs' = [runs EXCEPT ![p] = [Advance(@, "bind", After(@.script, "bind"))
                                       EXCEPT !.func = GetConcreteFunction(text_spec)]]
    /\ UNCHANGED <<fs, fs0, input_text, output>>

\* _ = model.serve(test_input): the first call creates the layers' weights
SampleCall(p) ==
    /\ runs[p].pc = "sample"
    /\ runs' = [runs EXCEPT ![p] = [Advance(@, "sample", After(@.script, "sample"))
                                       EXCEPT !.model = "built",
                                              !.func = ServeFunction,
                                              !.sample = Len(test_input)]]
    /\ UNCHANGED <<fs, fs0, input_text, output>>

\* tf.saved_model.save(...), one file at a time; the line after it reports
\* the success
SaveWrite(p) ==
    /\ runs[p].pc = "save"
    /\ LET r == runs[p]
           i == r.written + 1
           n == SaveOrder[i]
           sigs == IF n = "saved_model.pb" THEN Signatures(r.script, r.func) ELSE {}
       IN  /\ fs' = WriteFile(fs, n, p, sigs)
           /\ runs' = [runs EXCEPT ![p] =
                 IF i = Len(SaveOrder)
                 THEN [Advance(r, "save", After(r.script, "save"))
                          EXCEPT !.written = i, !.touched = TRUE, !.reported = TRUE]
                 ELSE [r EXCEPT !.written = i, !.touched = TRUE]]
    /\ UNCHANGED <<fs0, input_text, output>>

\* loaded = tf.saved_model.load(model_dir)
LoadStep(p) ==
    /\ runs[p].pc = "load"
    /\ runs' = [runs EXCEPT ![p] =
                   IF Loadable(fs)
                   THEN [Advance(@, "load", After(@.script, "load"))
                            EXCEPT !.loaded = TRUE, !.sigs = LoadedSigs(fs)]
                   ELSE Raised(@, "load", "OSError")]
    /\ UNCHANGED <<fs, fs0, input_text, output>>

\* for root, dirs, files in os.walk(model_path): print ...
Walk(p) ==
    /\ runs[p].pc = "walk"
    /\ runs' = [runs EXCEPT ![p] = [Advance(@, "walk", After(@.script, "walk"))
                                       EXCEPT !.listing = "tree"]]
    /\ UNCHANGED <<fs, fs0, input_text, output>>

\* print(os.listdir(model_dir))
Listdir(p) ==
    /\ runs[p].pc = "listdir"
    /\ runs' = [runs EXCEPT ![p] =
                   IF PathExists(fs)
                   THEN [Advance(@, "listdir", After(@.script, "listdir"))
                            EXCEPT !.listing = "flat"]
                   ELSE Raised(@, "listdir", "FileNotFoundError")]
    /\ UNCHANGED <<fs, fs0, input_text, output>>

\* the statement the run is at raises (permissions, disk full, no network,
\* an untraceable function, an unreadable artifact)
Raise(p) ==
    /\ runs[p].pc \notin {"done", "failed"}
    /\ runs' = [runs EXCEPT ![p] = Raised(@, @.pc, "Exception")]
    /\ UNCHANGED <<fs, fs0, input_text, output>>

---------------------------------------------------------------------------
(* One run of one script, with the destination to itself. *)

SoleRun == {1}

BothRuns == {1, 2}

Init ==
    /\ fs \in InitialDirs
    /\ fs0 = fs
    /\ \E s \in Scripts : runs = <<NewRun(s)>>
    /\ input_text = <<>>
    /\ output = NotCalled

Next ==
    \E p \in SoleRun :
        \/ CheckExists(p)
        \/ RmtreeStep(p)
        \/ MakedirsStep(p)
        \/ DefinePredict(p)
        \/ NewToxicityModel(p)
        \/ HubLoad(p)
        \/ Bind(p)
        \/ SampleCall(p)
        \/ SaveWrite(p)
        \/ LoadStep(p)
        \/ Walk(p)
        \/ Listdir(p)
        \/ Raise(p)

Spec == Init /\ [][Next]_vars

(* Two runs of create_tf_serving_model on the same destination. *)

InitConc ==
    /\ fs \in InitialDirs
    /\ fs0 = fs
    /\ runs = <<NewRun("serving"), NewRun("serving")>>
    /\ input_text = <<>>
    /\ output = NotCalled

NextConc ==
    \E p \in BothRuns :
        \/ CheckExists(p)
        \/ RmtreeStep(p)
        \/ MakedirsStep(p)
        \/ DefinePredict(p)
        \/ Bind(p)
        \/ SaveWrite(p)
        \/ LoadStep(p)
        \/ Walk(p)
        \/ Raise(p)

SpecConc == InitConc /\ [][NextConc]_vars

---------------------------------------------------------------------------
(* Properties. *)

RunIds == DOMAIN runs

Last(seq) == seq[Len(seq)]

Steps(r) == {r.trace[i] : i \in 1..Len(r.trace)}

\* position of a statement in the trace of a run (0: it did not run)
Pos(r, step) ==
    IF step \in Steps(r) THEN CHOOSE i \in 1..Len(r.trace) : r.trace[i] = step ELSE 0

\* the files of the destination that were there before the run
Survivors == {x \in fs.files : x.owner = 0}

\* the destination holds the whole artifact written by run p
HoldsArtifact(p) ==
    /\ fs.exists
    /\ \A n \in ArtifactNames : \E x \in fs.files : x.name = n /\ x.owner = p

\* the stage of the state machine START -> CONSTRUCT -> BIND -> EXPORT -> VERIFY -> DONE
\* a statement belongs to, by what the statement does
Stage(step) ==
    CASE step \in {"exists", "rmtree", "makedirs"} -> "START"
      [] step = "construct" -> "CONSTRUCT"
      [] step \in {"bind", "sample"} -> "BIND"
      [] step = "save" -> "EXPORT"
      [] step \in {"load", "walk", "listdir"} -> "VERIFY"
      [] step = "done" -> "DONE"
      [] step = "failed" -> "FAILED"

Rank(stage) ==
    CASE stage = "START" -> 0
      [] stage = "CONSTRUCT" -> 1
      [] stage = "BIND" -> 2
      [] stage = "EXPORT" -> 3
      [] stage = "VERIFY" -> 4
      [] stage = "DONE" -> 5
      [] stage = "FAILED" -> 6

\* C1: in each of the three scripts, once the export has completed the
\* destination holds only files written by this run: nothing that was there
\* before the run is still present.
C1_OnlyNewFiles ==
    \A p \in RunIds : runs[p].reported => Survivors = {}

\* C2: predict returns one toxicity_score per input string; for a string of
\* L bytes the score is min(L/100, 1.0) (in hundredths: L below 100, else 100),
\* predictions carries the same values and text_length is L.
C2_Scores ==
    output # NotCalled =>
        /\ Len(output.toxicity_score) = Len(input_text)
        /\ Len(output.text_length) = Len(input_text)
        /\ output.predictions = output.toxicity_score
        /\ \A i \in 1..Len(input_text) :
              \A L \in 0..MaxBytes :
                 (input_text[i] = Ascii(L) \/ (L % 3 = 0 /\ input_text[i] = Wide(L \div 3))) =>
                     /\ output.text_length[i] = L
                     /\ output.toxicity_score[i] = IF L >= 100 THEN 100 ELSE L

\* the scenario of the specification: ["hi", a string of 100 bytes or more]
C2_Witness ==
    /\ output # NotCalled
    /\ Len(input_text) = 2
    /\ input_text[1] = Ascii(2)
    /\ input_text[2] = Ascii(150)
    /\ output.toxicity_score = <<2, 100>>

\* C3 as stated: when the hub fetch of download_pretrained_model fails, the
\* destination is exactly as it was before the run.
C3_Original ==
    \A p \in RunIds :
        runs[p].script = "download" /\ runs[p].failedAt = "construct" => fs = fs0

\* C3 as amended: when the hub fetch fails the run ends FAILED having written
\* no file: the files of the destination are those from before the run; the
\* destination directory itself exists, created empty if it was missing.
C3_Amended ==
    \A p \in RunIds :
        runs[p].script = "download" /\ runs[p].failedAt = "construct" =>
            /\ runs[p].pc = "failed"
            /\ runs[p].written = 0
            /\ fs.files = fs0.files
            /\ fs.exists

C3_Witness ==
    \E p \in RunIds :
        /\ runs[p].script = "download"
        /\ runs[p].failedAt = "construct"
        /\ ~fs0.exists
        /\ fs.exists

\* C4: a failure at any statement ends the run in FAILED and no later
\* statement runs; create_toxicity_model and download_pretrained_model die of
\* it uncaught with a non-zero status, create_tf_serving_model catches it at
\* the top level and exits with status 0.
C4_Exit ==
    \A p \in RunIds :
        runs[p].failedAt # "none" =>
            /\ runs[p].pc = "failed"
            /\ runs[p].exited
            /\ Last(runs[p].trace) = runs[p].failedAt
            /\ runs[p].script \in {"toxicity", "download"} =>
                  ~runs[p].caught /\ runs[p].exitCode # 0
            /\ runs[p].script = "serving" =>
                  runs[p].caught /\ runs[p].exitCode = 0

C4_Witness ==
    \E p \in RunIds :
        /\ runs[p].script = "serving"
        /\ runs[p].failedAt = "save"
        /\ runs[p].written = 1
        /\ runs[p].exitCode = 0
        /\ runs[p].exited

\* the stages follow the order of the state machine
StageOrder(a, b) ==
    /\ a \notin {"DONE", "FAILED"}
    /\ b = "FAILED" \/ Rank(b) >= Rank(a)

\* C5 as stated: the stages are passed in order, and the destination changes
\* only during EXPORT.
C5_Original ==
    [][LET a == Stage(runs[1].pc)
           b == Stage(runs'[1].pc)
       IN  /\ StageOrder(a, b)
           /\ fs' # fs => a = "EXPORT"]_vars

\* C5 as amended: the stages are passed in order START, CONSTRUCT, [BIND],
\* EXPORT, VERIFY, DONE (or FAILED from any); files are written only during
\* EXPORT, and the destination directory is deleted or created during START,
\* before CONSTRUCT; CONSTRUCT, BIND and VERIFY leave the destination alone.
C5_Amended ==
    [][LET a == Stage(runs[1].pc)
           b == Stage(runs'[1].pc)
       IN  /\ StageOrder(a, b)
           /\ fs' # fs => a \in {"START", "EXPORT"}
           /\ a = "START" => fs'.files \subseteq fs.files
           /\ a = "EXPORT" => fs'.exists]_vars

C5_Witness ==
    /\ Stage(runs[1].pc) = "CONSTRUCT"
    /\ fs # fs0

\* C6 as stated: in two of the three scripts (the two that print the file
\* tree) a run that reaches DONE has reloaded the artifact and printed the tree.
C6_Original ==
    \A p \in RunIds :
        runs[p].script \in {"serving", "toxicity"} /\ runs[p].pc = "done" =>
            runs[p].loaded /\ runs[p].listing = "tree"

\* C6 as amended: only create_tf_serving_model reloads the artifact: its run
\* that reaches DONE has saved, then reloaded, then printed the tree, and a
\* load failure sends it to FAILED; create_toxicity_model prints the tree and
\* download_pretrained_model a flat listing, neither reloads.
C6_Amended ==
    \A p \in RunIds :
        LET r == runs[p]
        IN  /\ r.failedAt = "load" => r.pc = "failed" /\ ~r.loaded
            /\ r.script # "serving" => ~r.loaded /\ "load" \notin Steps(r)
            /\ r.pc = "done" =>
                  /\ r.script = "serving" =>
                        /\ r.loaded
                        /\ r.listing = "tree"
                        /\ 0 < Pos(r, "save")
                        /\ Pos(r, "save") < Pos(r, "load")
                        /\ Pos(r, "load") < Pos(r, "walk")
                  /\ r.script = "toxicity" => r.listing = "tree"
                  /\ r.script = "download" => r.listing = "flat"

C6_Witness ==
    \E p \in RunIds :
        /\ runs[p].script = "serving"
        /\ runs[p].pc = "done"
        /\ runs[p].loaded
        /\ runs[p].listing = "tree"

\* C7: two runs of create_tf_serving_model on one destination are unsafe: a
\* run can have reported success while the destination does not hold its
\* complete artifact, and that state arises only when the other run has
\* changed the destination, as does the failure of a run on a directory that
\* has gone (rmtree or load finding nothing); a run with the destination to
\* itself (the other run has not touched it) never reaches either.
C7_UnsafeOnlyWhenShared ==
    \A p \in RunIds :
        \/ runs[p].reported /\ ~HoldsArtifact(p)
        \/ runs[p].error \in {"FileNotFoundError", "OSError"}
        => \E q \in RunIds \ {p} : runs[q].touched

\* a run has ended DONE with status 0 and its artifact is not in the destination
C7_Witness ==
    \E p \in RunIds :
        /\ runs[p].pc = "done"
        /\ runs[p].exitCode = 0
        /\ runs[p].reported
        /\ ~HoldsArtifact(p)

C9_SampleBeforeSave ==
    \A p \in RunIds :
        LET r == runs[p]
        IN  r.script = "toxicity" =>
               /\ (r.pc = "save" \/ r.written > 0 \/ "save" \in Steps(r)) =>
                     /\ r.model = "built"
                     /\ r.sample = 1
                     /\ 0 < Pos(r, "sample")
               /\ r.failedAt = "sample" =>
                     /\ r.written = 0
                     /\ r.pc = "failed"
                     /\ \A x \in fs.files : x.owner # p

C9_Witness ==
    \E p \in RunIds :
        /\ runs[p].script = "toxicity"
        /\ runs[p].pc = "save"
        /\ runs[p].written = 1
        /\ runs[p].model = "built"

\* C10: no partial-write recovery: a step into FAILED leaves the destination
\* as it is at that moment (the prior artifact is not restored, an incomplete
\* directory is not removed) and nothing changes it afterwards; and in
\* create_tf_serving_model nothing of the prior artifact is left when the
\* serialization starts.
C10_NoRecovery ==
    /\ [][runs[1].pc = "failed" \/ runs'[1].pc = "failed" => fs' = fs]_vars
    /\ [](runs[1].script = "serving" /\ runs[1].pc = "save" => Survivors = {})

\* the export failed half way: an incomplete directory is what is left
C10_Witness ==
    /\ runs[1].pc = "failed"
    /\ runs[1].failedAt = "save"
    /\ runs[1].written = 2
    /\ fs.exists
    /\ ~Loadable(fs)
    /\ fs # fs0

=============================================================================
